---- MODULE Spec2Model ----
(***************************************************************************)
(* Model of notebooks/diffable_python/one-drug-database-analysis.py.       *)
(*                                                                         *)
(* The notebook is a linear sequence of cells.  Two sections carry logic:  *)
(*   - "Change 1: BNF code changes": the mapping spreadsheet is renamed,   *)
(*     filtered and sorted, then two Counters give the fan-out tables.     *)
(*   - "Percentage / Distribution / Top 10": a per-presentation series     *)
(*     returned by the warehouse is summed, compared with the grand total, *)
(*     cut at quantiles, and sorted for the top rows.                      *)
(* The second section reads only the warehouse result, never the tables of *)
(* the first, so each section is explored from a fresh session.            *)
(*                                                                         *)
(* BNF codes are strings; they are modelled as sequences of digits so that *)
(* str.startswith and the lexical order of sort_values are computed.       *)
(* Magnitudes are integers; quotients are kept as exact fractions and the  *)
(* two non-finite floats (nan, inf) are separate values.                   *)
(***************************************************************************)
EXTENDS Integers, Sequences, FiniteSets, TLC

VARIABLES pc, bnf_mapping_raw, bnf_mapping,
          old_code_counts, old_code_count_distribution,
          new_code_counts, new_code_count_distribution,
          bnf_code, error,
          total_items, df1, percent, percentiles, k, shares, top

vars == <<pc, bnf_mapping_raw, bnf_mapping,
          old_code_counts, old_code_count_distribution,
          new_code_counts, new_code_count_distribution,
          bnf_code, error,
          total_items, df1, percent, percentiles, k, shares, top>>

mappingVars == <<bnf_mapping_raw, bnf_mapping,
                 old_code_counts, old_code_count_distribution,
                 new_code_counts, new_code_count_distribution, bnf_code>>

seriesVars == <<total_items, df1, percent, percentiles, k, shares, top>>

(***************************************************************************)
(* Bounds                                                                  *)
(***************************************************************************)
MaxRows == 3
MaxSeries == 3
MaxVal == 3
MaxGrand == 4
HeadN == 2

(***************************************************************************)
(* Strings                                                                 *)
(***************************************************************************)
\* The codes a spreadsheet cell may hold: "019", "1", "190".
Codes == {<<0, 1, 9>>, <<1>>, <<1, 9, 0>>}

\* The literal '19' of the two startswith filters.
ExcludedPrefix == <<1, 9>>

\* str.startswith
StartsWith(s, prefix) ==
    /\ Len(s) >= Len(prefix)
    /\ SubSeq(s, 1, Len(prefix)) = prefix

\* Python's str "<": first differing character decides, a proper prefix is smaller.
RECURSIVE LexLess(_, _)
LexLess(a, b) ==
    IF b = <<>> THEN FALSE
    ELSE IF a = <<>> THEN TRUE
    ELSE IF Head(a) # Head(b) THEN Head(a) < Head(b)
    ELSE LexLess(Tail(a), Tail(b))

(***************************************************************************)
(* Reference-data loader (the "Massage the data" cell)                     *)
(***************************************************************************)
\* One spreadsheet row after the rename, with its DataFrame index label.
Cells == [changed : {"Y", "N"}, old_code : Codes, new_code : Codes]

\* read_excel gives a RangeIndex: the i-th row carries label i-1.
RawTables ==
    UNION {{[i \in 1..n |-> [idx |-> i - 1, changed |-> f[i].changed,
                             old_code |-> f[i].old_code, new_code |-> f[i].new_code]] :
             f \in [1..n -> Cells]} : n \in 0..MaxRows}

\* The order sort_values(['old_code', 'new_code']) sorts by.
KeyLess(r1, r2) ==
    \/ LexLess(r1.old_code, r2.old_code)
    \/ r1.old_code = r2.old_code /\ LexLess(r1.new_code, r2.new_code)

\* Insert r after every row whose key is not larger (keeps equal keys in input order).
RECURSIVE InsertRow(_, _)
InsertRow(r, s) ==
    IF s = <<>> THEN <<r>>
    ELSE IF KeyLess(r, Head(s)) THEN <<r>> \o s
    ELSE <<Head(s)>> \o InsertRow(r, Tail(s))

\* sort_values on two columns: a stable lexical sort.
RECURSIVE SortValues(_)
SortValues(s) ==
    IF s = <<>> THEN <<>>
    ELSE InsertRow(s[Len(s)], SortValues(SubSeq(s, 1, Len(s) - 1)))

IsChanged(r) == r.changed = "Y"
OldNotExcluded(r) == ~StartsWith(r.old_code, ExcludedPrefix)
\* The third filter written against the column of the second.
NewNotExcluded_OldColumn(r) == ~StartsWith(r.old_code, ExcludedPrefix)
NewNotExcluded(r) == ~StartsWith(r.new_code, ExcludedPrefix)

\* The three boolean-mask filters followed by the sort.
MassageMapping(raw) ==
    SortValues(SelectSeq(SelectSeq(SelectSeq(raw, IsChanged), OldNotExcluded), NewNotExcluded))

(***************************************************************************)
(* Fan-out tables                                                          *)
(***************************************************************************)
\* Counter(column): every value of the column mapped to its number of rows.
CounterOf(column) ==
    [c \in {column[i] : i \in DOMAIN column} |->
        Cardinality({i \in DOMAIN column : column[i] = c})]

OldCodeColumn(m) == [i \in DOMAIN m |-> m[i].old_code]
NewCodeColumn(m) == [i \in DOMAIN m |-> m[i].new_code]

\* Counter(counts.values()): every count mapped to the number of keys having it.
CounterOfValues(counts) ==
    [n \in {counts[c] : c \in DOMAIN counts} |->
        Cardinality({c \in DOMAIN counts : counts[c] = n})]

\* sorted(counter.items()): the (key, value) pairs by ascending integer key.
RECURSIVE SortedItems(_)
SortedItems(counter) ==
    IF DOMAIN counter = {} THEN <<>>
    ELSE LET lo == CHOOSE n \in DOMAIN counter : \A o \in DOMAIN counter : n <= o
         IN <<<<lo, counter[lo]>>>> \o
            SortedItems([n \in DOMAIN counter \ {lo} |-> counter[n]])

\* Counter.most_common(1)[0][0]: the largest count, the key inserted first on a tie.
FirstIndexOf(column, c) == CHOOSE i \in DOMAIN column : column[i] = c /\ \A j \in 1..(i - 1) : column[j] # c
MostCommon1(column) ==
    LET counts == CounterOf(column)
    IN CHOOSE c \in DOMAIN counts :
          /\ \A o \in DOMAIN counts : counts[o] <= counts[c]
          /\ \A o \in DOMAIN counts :
                counts[o] = counts[c] => FirstIndexOf(column, c) <= FirstIndexOf(column, o)

NoCode == <<>>
EmptyFn == [x \in {} |-> 0]

(***************************************************************************)
(* Actions of the mapping section                                          *)
(***************************************************************************)
\* bnf_mapping_raw = pd.read_excel(...)
ReadExcel ==
    /\ pc = "start"
    /\ \E t \in RawTables : bnf_mapping_raw' = t
    /\ pc' = "massage"
    /\ UNCHANGED <<bnf_mapping, old_code_counts, old_code_count_distribution,
                   new_code_counts, new_code_count_distribution, bnf_code, error>>
    /\ UNCHANGED seriesVars

\* rename, three filters, sort_values
Massage ==
    /\ pc = "massage"
    /\ bnf_mapping' = MassageMapping(bnf_mapping_raw)
    /\ pc' = "old_counts"
    /\ UNCHANGED <<bnf_mapping_raw, old_code_counts, old_code_count_distribution,
                   new_code_counts, new_code_count_distribution, bnf_code, error>>
    /\ UNCHANGED seriesVars

\* old_code_counts, old_code_count_distribution
OldCodeCounts ==
    /\ pc = "old_counts"
    /\ old_code_counts' = CounterOf(OldCodeColumn(bnf_mapping))
    /\ old_code_count_distribution' = SortedItems(CounterOfValues(old_code_counts'))
    /\ pc' = "most_common"
    /\ UNCHANGED <<bnf_mapping_raw, bnf_mapping, new_code_counts,
                   new_code_count_distribution, bnf_code, error>>
    /\ UNCHANGED seriesVars

\* bnf_code = old_code_counts.most_common(1)[0][0]; [0] on an empty list raises
\* IndexError, which stops the run.
MostCommon ==
    /\ pc = "most_common"
    /\ IF DOMAIN old_code_counts = {}
       THEN /\ error' = "IndexError"
            /\ pc' = "halted"
            /\ UNCHANGED bnf_code
       ELSE /\ bnf_code' = MostCommon1(OldCodeColumn(bnf_mapping))
            /\ pc' = "new_counts"
            /\ UNCHANGED error
    /\ UNCHANGED <<bnf_mapping_raw, bnf_mapping, old_code_counts,
                   old_code_count_distribution, new_code_counts,
                   new_code_count_distribution>>
    /\ UNCHANGED seriesVars

\* new_code_counts, new_code_count_distribution
NewCodeCounts ==
    /\ pc = "new_counts"
    /\ new_code_counts' = CounterOf(NewCodeColumn(bnf_mapping))
    /\ new_code_count_distribution' = SortedItems(CounterOfValues(new_code_counts'))
    /\ pc' = "mapping_done"
    /\ UNCHANGED <<bnf_mapping_raw, bnf_mapping, old_code_counts,
                   old_code_count_distribution, bnf_code, error>>
    /\ UNCHANGED seriesVars

(***************************************************************************)
(* Numbers                                                                 *)
(***************************************************************************)
Frac(n, d) == [num |-> n, den |-> d]

\* The two non-finite floats, kept apart from every finite quotient (den > 0).
NaN == Frac(0, 0)
Inf == Frac(1, 0)

\* A name no cell has assigned yet.
Unset == Frac(-1, -1)

\* The quotient taken the wrong way round.
TrueDiv_Swapped(a, b) ==
    IF a = 0 THEN (IF b = 0 THEN [num |-> 0, den |-> 0] ELSE [num |-> 1, den |-> 0])
    ELSE [num |-> b, den |-> a]

\* Every division by zero taken for inf, 0/0 included.
TrueDiv_ZeroIsInf(a, b) ==
    IF b = 0 THEN [num |-> 1, den |-> 0] ELSE [num |-> a, den |-> b]

\* numpy scalar "/" on non-negative operands: x/0 warns and gives inf, 0/0 gives nan.
TrueDiv(a, b) ==
    IF b = 0 THEN (IF a = 0 THEN NaN ELSE Inf) ELSE Frac(a, b)

\* The quotient left as a fraction of one.
Times100_Missing(x) == x

\* "* 100" on the quotient; nan and inf are absorbing.
Times100(x) ==
    IF x \in {NaN, Inf} THEN x ELSE Frac(100 * x.num, x.den)

\* The quantile taken at percentile itself.
OneMinus_Identity(p) == p

\* "1 - percentile"
OneMinus(p) == Frac(p.den - p.num, p.den)

RECURSIVE SumSeq(_)
SumSeq(s) == IF s = <<>> THEN 0 ELSE Head(s) + SumSeq(Tail(s))

RECURSIVE InsertInt(_, _)
InsertInt(v, s) ==
    IF s = <<>> THEN <<v>>
    ELSE IF v < Head(s) THEN <<v>> \o s
    ELSE <<Head(s)>> \o InsertInt(v, Tail(s))

\* The ascending order of the values that quantile interpolates in.
RECURSIVE SortInts(_)
SortInts(s) == IF s = <<>> THEN <<>> ELSE InsertInt(Head(s), SortInts(Tail(s)))

(***************************************************************************)
(* Concentration                                                           *)
(***************************************************************************)
\* Series.quantile(q), interpolation='linear': position (n-1)*q in the sorted
\* values, interpolated between its two neighbours; nan for an empty series.
Quantile(values, q) ==
    IF values = <<>> THEN NaN
    ELSE LET s == SortInts(values)
             n == Len(s)
             pos == (n - 1) * q.num
             lo == pos \div q.den
             rem == pos % q.den
             hi == IF lo + 1 <= n - 1 THEN lo + 1 ELSE lo
         IN Frac(s[lo + 1] * q.den + rem * (s[hi + 1] - s[lo + 1]), q.den)

\* The mask written with ">=".
GreaterThan_OrEqual(v, cutoff) ==
    IF cutoff.den = 0 THEN FALSE ELSE v * cutoff.den >= cutoff.num

\* The mask written with "<": the tail below the cutoff.
GreaterThan_Below(v, cutoff) ==
    IF cutoff.den = 0 THEN FALSE ELSE v * cutoff.den < cutoff.num

\* "value > cutoff"; every comparison with nan is False.
GreaterThan(v, cutoff) ==
    IF cutoff = NaN THEN FALSE ELSE v * cutoff.den > cutoff.num

\* items1[items1 > items1.quantile(1 - percentile)]
Captured(values, percentile) ==
    LET cutoff == Quantile(values, OneMinus(percentile))
        Above(v) == GreaterThan(v, cutoff)
    IN SelectSeq(values, Above)

\* items1[items1 > items1.quantile(1 - percentile)].sum() / items1.sum()
CapturedShare(values, percentile) ==
    TrueDiv(SumSeq(Captured(values, percentile)), SumSeq(values))

\* items1 = df1['items']
ItemsColumn(df) == [i \in DOMAIN df |-> df[i].items]

\* The thresholds of the notebook's loops: 0.01, 0.05, 0.1, 0.2.
NotebookPercentiles == <<Frac(1, 100), Frac(5, 100), Frac(1, 10), Frac(2, 10)>>

\* The same loop run over thresholds spread across (0, 1].
WidePercentiles ==
    <<Frac(1, 100), Frac(5, 100), Frac(1, 10), Frac(2, 10), Frac(33, 100), Frac(1, 2), Frac(1, 1)>>

PercentileLists == {NotebookPercentiles, WidePercentiles}

\* Identifiers of the warehouse rows: "019", "1", "190", "91".
SeriesCodes == Codes \cup {<<9, 1>>}

\* GROUP BY bnf_code gives one row per code, in no particular order.
SeriesTables ==
    UNION {{t \in [1..n -> [bnf_code : SeriesCodes, items : 0..MaxVal]] :
             \A i, j \in 1..n : i # j => t[i].bnf_code # t[j].bnf_code} : n \in 0..MaxSeries}

\* The sort with ascending left at its default.
SortedDescending_Ascending(df) ==
    {t \in {[i \in DOMAIN df |-> df[f[i]]] :
              f \in {g \in [DOMAIN df -> DOMAIN df] : \A i, j \in DOMAIN df : i # j => g[i] # g[j]}} :
        \A i \in 1..(Len(t) - 1) : t[i].items <= t[i + 1].items}

\* The row orders sort_values(['items'], ascending=False) may return: the default
\* kind='quicksort' orders by the column only and promises nothing for equal values.
SortedDescending(df) ==
    {t \in {[i \in DOMAIN df |-> df[f[i]]] :
              f \in {g \in [DOMAIN df -> DOMAIN df] : \A i, j \in DOMAIN df : i # j => g[i] # g[j]}} :
        \A i \in 1..(Len(t) - 1) : t[i].items >= t[i + 1].items}

\* .head(n)
HeadRows(t, n) == SubSeq(t, 1, IF Len(t) < n THEN Len(t) ELSE n)

(***************************************************************************)
(* Actions of the concentration section                                    *)
(***************************************************************************)
\* total_items = df.iloc[0] of the totals query; df1 = bq.cached_read(...);
\* percentiles is the list the loop below runs over.
CachedRead ==
    /\ pc = "start"
    /\ \E g \in 0..MaxGrand : total_items' = g
    /\ \E t \in SeriesTables : df1' = t
    /\ \E l \in PercentileLists : percentiles' = l
    /\ pc' = "percent"
    /\ UNCHANGED <<percent, k, shares, top, error>>
    /\ UNCHANGED mappingVars

\* items1.sum() / total_items * 100
PercentOfTotal ==
    /\ pc = "percent"
    /\ percent' = Times100(TrueDiv(SumSeq(ItemsColumn(df1)), total_items))
    /\ k' = 1
    /\ pc' = "loop"
    /\ UNCHANGED <<total_items, df1, percentiles, shares, top, error>>
    /\ UNCHANGED mappingVars

\* One iteration of "for percentile in [...]: print(percentile, ...)".
PercentileStep ==
    /\ pc = "loop"
    /\ k <= Len(percentiles)
    /\ shares' = Append(shares, [percentile |-> percentiles[k],
                                 captured |-> Captured(ItemsColumn(df1), percentiles[k]),
                                 share |-> CapturedShare(ItemsColumn(df1), percentiles[k])])
    /\ k' = k + 1
    /\ pc' = IF k = Len(percentiles) THEN "top" ELSE "loop"
    /\ UNCHANGED <<total_items, df1, percent, percentiles, top, error>>
    /\ UNCHANGED mappingVars

\* df1.sort_values(['items'], ascending=False).head(10)
Top10 ==
    /\ pc = "top"
    /\ \E t \in SortedDescending(df1) : top' = HeadRows(t, HeadN)
    /\ pc' = "series_done"
    /\ UNCHANGED <<total_items, df1, percent, percentiles, k, shares, error>>
    /\ UNCHANGED mappingVars

Init ==
    /\ pc = "start"
    /\ bnf_mapping_raw = <<>>
    /\ bnf_mapping = <<>>
    /\ old_code_counts = EmptyFn
    /\ old_code_count_distribution = <<>>
    /\ new_code_counts = EmptyFn
    /\ new_code_count_distribution = <<>>
    /\ bnf_code = NoCode
    /\ error = "none"
    /\ total_items = 0
    /\ df1 = <<>>
    /\ percent = Unset
    /\ percentiles = <<>>
    /\ k = 0
    /\ shares = <<>>
    /\ top = <<>>

Next ==
    \/ ReadExcel
    \/ Massage
    \/ OldCodeCounts
    \/ MostCommon
    \/ NewCodeCounts
    \/ CachedRead
    \/ PercentOfTotal
    \/ PercentileStep
    \/ Top10

Spec == Init /\ [][Next]_vars

(***************************************************************************)
(* Properties of the mapping section                                       *)
(***************************************************************************)
Massaged == pc \in {"old_counts", "most_common", "new_counts", "mapping_done", "halted"}
OldCounted == pc \in {"most_common", "new_counts", "mapping_done", "halted"}
NewCounted == pc = "mapping_done"

\* Distinct targets a source maps to in the record list, per direction.
NewCodesOf(old) ==
    {bnf_mapping[i].new_code : i \in {j \in DOMAIN bnf_mapping : bnf_mapping[j].old_code = old}}
OldCodesOf(new) ==
    {bnf_mapping[i].old_code : i \in {j \in DOMAIN bnf_mapping : bnf_mapping[j].new_code = new}}
DistinctPairs == {<<bnf_mapping[i].old_code, bnf_mapping[i].new_code>> : i \in DOMAIN bnf_mapping}

RECURSIVE SumOfNums(_)
SumOfNums(dist) == IF dist = <<>> THEN 0 ELSE Head(dist)[2] + SumOfNums(Tail(dist))

RECURSIVE SumOfProducts(_)
SumOfProducts(dist) ==
    IF dist = <<>> THEN 0 ELSE Head(dist)[1] * Head(dist)[2] + SumOfProducts(Tail(dist))

\* C1: in either direction the fan-out reported for a source code is the number
\* of distinct target codes it maps to; a repeated (source, target) row does not
\* raise it.
C1_FanoutCountsDistinctTargets ==
    /\ OldCounted =>
          /\ DOMAIN old_code_counts = {bnf_mapping[i].old_code : i \in DOMAIN bnf_mapping}
          /\ \A c \in DOMAIN old_code_counts : old_code_counts[c] = Cardinality(NewCodesOf(c))
    /\ NewCounted =>
          /\ DOMAIN new_code_counts = {bnf_mapping[i].new_code : i \in DOMAIN bnf_mapping}
          /\ \A c \in DOMAIN new_code_counts : new_code_counts[c] = Cardinality(OldCodesOf(c))

\* C2: in either direction the histogram's values sum to the number of distinct
\* source codes, and the sum of fan-out times number of sources is the number of
\* distinct (source, target) pairs.
C2_HistogramSums ==
    /\ OldCounted =>
          /\ SumOfNums(old_code_count_distribution) =
                Cardinality({bnf_mapping[i].old_code : i \in DOMAIN bnf_mapping})
          /\ SumOfProducts(old_code_count_distribution) = Cardinality(DistinctPairs)
    /\ NewCounted =>
          /\ SumOfNums(new_code_count_distribution) =
                Cardinality({bnf_mapping[i].new_code : i \in DOMAIN bnf_mapping})
          /\ SumOfProducts(new_code_count_distribution) = Cardinality(DistinctPairs)

\* The code begins with the characters '1', '9'.
InChapter19(code) == Len(code) >= 2 /\ code[1] = 1 /\ code[2] = 9

\* a sorts at or before b as strings: equal, a proper prefix, or smaller at the
\* first position where they differ.
LexAtMost(a, b) ==
    \/ a = b
    \/ \E n \in 1..(Len(b)) :
          /\ \A i \in 1..(n - 1) : i <= Len(a) /\ a[i] = b[i]
          /\ \/ Len(a) = n - 1
             \/ Len(a) >= n /\ a[n] < b[n]

KeptRows ==
    {bnf_mapping_raw[i] : i \in {j \in DOMAIN bnf_mapping_raw :
        /\ bnf_mapping_raw[j].changed = "Y"
        /\ ~InChapter19(bnf_mapping_raw[j].old_code)
        /\ ~InChapter19(bnf_mapping_raw[j].new_code)}}

\* C3: the loader's output holds exactly the rows with changed = 'Y' whose
\* old_code and new_code both do not start with '19', each once, in ascending
\* (old_code, new_code) order.
C3_LoaderFilterAndSort ==
    Massaged =>
        /\ {bnf_mapping[i] : i \in DOMAIN bnf_mapping} = KeptRows
        /\ Len(bnf_mapping) = Cardinality(KeptRows)
        /\ \A i \in 1..(Len(bnf_mapping) - 1) :
              /\ LexAtMost(bnf_mapping[i].old_code, bnf_mapping[i + 1].old_code)
              /\ bnf_mapping[i].old_code = bnf_mapping[i + 1].old_code =>
                    LexAtMost(bnf_mapping[i].new_code, bnf_mapping[i + 1].new_code)

\* A load that dropped an unchanged row, a chapter-19 old code and a chapter-19
\* new code, and had to reorder the two rows it kept.
C3_Witness ==
    /\ pc = "old_counts"
    /\ Len(bnf_mapping) = 2
    /\ bnf_mapping[1].idx > bnf_mapping[2].idx
    /\ \E i \in DOMAIN bnf_mapping_raw :
          bnf_mapping_raw[i].changed = "Y" /\ InChapter19(bnf_mapping_raw[i].new_code)
             /\ ~InChapter19(bnf_mapping_raw[i].old_code)

(***************************************************************************)
(* Properties of the concentration section                                 *)
(***************************************************************************)
PercentDone == pc \in {"loop", "top", "series_done"}
TopDone == pc = "series_done"

N == Len(df1)

RECURSIVE SumItemsOver(_)
SumItemsOver(S) ==
    IF S = {} THEN 0
    ELSE LET i == CHOOSE j \in S : TRUE IN df1[i].items + SumItemsOver(S \ {i})

Total == SumItemsOver(DOMAIN df1)

\* The magnitude of rank j (0-based) when the magnitudes are put in ascending order.
OrderStat(j) ==
    CHOOSE v \in {df1[i].items : i \in DOMAIN df1} :
        /\ Cardinality({i \in DOMAIN df1 : df1[i].items < v}) <= j
        /\ j < Cardinality({i \in DOMAIN df1 : df1[i].items <= v})

\* p.den times the linear-interpolation (1-p)-quantile of the magnitudes: the
\* point at fraction 1-p of the way along the ranks 0..N-1, weighted between
\* the two ranks around it.
CutoffTimesDen(p) ==
    LET pos == (N - 1) * (p.den - p.num)
        lo == pos \div p.den
        rem == pos % p.den
    IN IF rem = 0 THEN OrderStat(lo) * p.den
       ELSE OrderStat(lo) * (p.den - rem) + OrderStat(lo + 1) * rem

AboveCutoff(p) == {i \in DOMAIN df1 : df1[i].items * p.den > CutoffTimesDen(p)}

Finite(x) == x.den > 0
FracLess(x, y) == x.num * y.den < y.num * x.den
FracAtMost(x, y) == x.num * y.den <= y.num * x.den

\* C4: for a non-empty series the captured share printed for percentile p is
\* (sum of the magnitudes strictly above the linear-interpolation (1-p)-quantile)
\* over (sum of all magnitudes), 0/0 being nan; a magnitude equal to the cutoff
\* is left out.
C4_CapturedShareIsTailAboveQuantile ==
    \A n \in DOMAIN shares :
        N >= 1 =>
            LET e == shares[n]
                tail == SumItemsOver(AboveCutoff(e.percentile))
            IN /\ Total > 0 => Finite(e.share) /\ e.share.num * Total = tail * e.share.den
               /\ Total = 0 => e.share = NaN
               /\ SumSeq(e.captured) = tail
               /\ \A i \in DOMAIN df1 :
                     df1[i].items * e.percentile.den = CutoffTimesDen(e.percentile)
                        => i \notin AboveCutoff(e.percentile)

\* Three magnitudes, the median 0.5-quantile falls on a positive magnitude that
\* two identifiers share, so the top half by rank is not what is summed.
C4_Witness ==
    /\ N = 3
    /\ \E n \in DOMAIN shares :
          LET e == shares[n]
          IN /\ e.percentile = Frac(1, 2)
             /\ e.share = Frac(0, Total)
             /\ Cardinality({i \in DOMAIN df1 :
                   df1[i].items > 0 /\ df1[i].items * 2 = CutoffTimesDen(e.percentile)}) = 2

\* C5: for non-negative magnitudes with positive total, a larger percentile never
\* gives a smaller captured share.
C5_ShareMonotoneInPercentile ==
    \A m, n \in DOMAIN shares :
        (Total > 0 /\ FracLess(shares[m].percentile, shares[n].percentile))
            => FracAtMost(shares[m].share, shares[n].share)

\* Two thresholds of one run with a strictly growing, non-zero share.
C5_Witness ==
    \E m, n \in DOMAIN shares :
        /\ Total > 0
        /\ FracLess(shares[m].percentile, shares[n].percentile)
        /\ shares[m].share.num > 0
        /\ FracLess(shares[m].share, shares[n].share)

InUnitInterval(x) == Finite(x) /\ 0 <= x.num /\ x.num <= x.den
InPercentRange(x) == Finite(x) /\ 0 <= x.num /\ x.num <= 100 * x.den

\* C6: every captured share is in [0,1], and percent_of_grand_total is in
\* [0,100] whenever total <= grand_total, for every series of non-negative
\* magnitudes.
C6_Original ==
    /\ \A n \in DOMAIN shares : InUnitInterval(shares[n].share)
    /\ (PercentDone /\ Total <= total_items) => InPercentRange(percent)

\* C6 (amended): every captured share of a series with positive total is in
\* [0,1], and percent_of_grand_total is in [0,100] whenever
\* total <= grand_total and grand_total is positive.
C6_BoundsWhenDefined ==
    /\ Total > 0 => \A n \in DOMAIN shares : InUnitInterval(shares[n].share)
    /\ (PercentDone /\ Total <= total_items /\ total_items > 0) => InPercentRange(percent)

\* A run with a share strictly inside (0,1) and a percentage strictly inside (0,100).
C6_Witness ==
    /\ TopDone
    /\ Total < total_items
    /\ 0 < percent.num /\ percent.num < 100 * percent.den
    /\ \E n \in DOMAIN shares : 0 < shares[n].share.num /\ shares[n].share.num < shares[n].share.den

Rows(t) == {t[i] : i \in DOMAIN t}

\* C7: top(n) is the n rows of largest magnitude, descending, and among equal
\* magnitudes (also across the n-th position) the lexically smaller identifier
\* comes first.
C7_Original ==
    TopDone =>
        /\ Len(top) = (IF N < HeadN THEN N ELSE HeadN)
        /\ Rows(top) \subseteq Rows(df1)
        /\ \A i, j \in DOMAIN top :
              i < j => \/ top[i].items > top[j].items
                       \/ /\ top[i].items = top[j].items
                          /\ top[i].bnf_code # top[j].bnf_code
                          /\ LexAtMost(top[i].bnf_code, top[j].bnf_code)
        /\ \A r \in Rows(df1) \ Rows(top) : \A i \in DOMAIN top :
              \/ top[i].items > r.items
              \/ top[i].items = r.items /\ LexAtMost(top[i].bnf_code, r.bnf_code)

\* C7 (amended): top(n) is min(n, N) distinct rows of the series in descending
\* magnitude order, and no row left out has a larger magnitude than a row
\* returned; the order among equal magnitudes is not fixed by the identifier.
C7_TopIsLargestDescending ==
    TopDone =>
        /\ Len(top) = (IF N < HeadN THEN N ELSE HeadN)
        /\ Rows(top) \subseteq Rows(df1)
        /\ \A i, j \in DOMAIN top : i < j => top[i] # top[j] /\ top[i].items >= top[j].items
        /\ \A r \in Rows(df1) \ Rows(top) : \A i \in DOMAIN top : top[i].items >= r.items

\* More rows than n, and a row left out ties with the n-th row returned while
\* carrying the lexically smaller identifier.
C7_Witness ==
    /\ TopDone
    /\ N > HeadN
    /\ \E r \in Rows(df1) \ Rows(top) :
          /\ r.items = top[HeadN].items
          /\ r.items > 0
          /\ LexAtMost(r.bnf_code, top[HeadN].bnf_code)

\* C8: on an empty record list the fan-out fails with EmptyInputError, and on an
\* empty series a requested captured share fails with EmptyInputError.
C8_Original ==
    /\ (OldCounted /\ bnf_mapping = <<>>) => error = "EmptyInputError"
    /\ (df1 = <<>> /\ shares # <<>>) => error = "EmptyInputError"

\* C8 (amended): no EmptyInputError exists.  On an empty record list the fan-out
\* cell completes with an empty fan-out mapping and an empty histogram, and the
\* run stops only at most_common(1)[0][0] with IndexError; on an empty series
\* every captured share is nan and no error is raised.
C8_EmptyInputGivesEmptyOrNaN ==
    /\ error \in {"none", "IndexError"}
    /\ (OldCounted /\ bnf_mapping = <<>>) =>
          /\ old_code_counts = EmptyFn
          /\ old_code_count_distribution = <<>>
          /\ pc \in {"most_common", "halted"}
          /\ error = (IF pc = "halted" THEN "IndexError" ELSE "none")
    /\ error = "IndexError" => pc = "halted" /\ bnf_mapping = <<>>
    /\ (PercentDone /\ df1 = <<>>) =>
          /\ error = "none"
          /\ \A n \in DOMAIN shares : shares[n].share = NaN /\ shares[n].captured = <<>>

\* The loop has run to its end over an empty series.
C8_Witness ==
    /\ TopDone
    /\ df1 = <<>>
    /\ Len(shares) = Len(percentiles)
    /\ Len(shares) >= 4
    /\ top = <<>>

\* C9: percent_of_grand_total is 100 * total / grand_total for a non-zero grand
\* total, and for a zero grand total it is the undefined value, not a number
\* and not an error.
C9_Original ==
    PercentDone =>
        /\ error = "none"
        /\ total_items # 0 => Finite(percent) /\ percent.num * total_items = 100 * Total * percent.den
        /\ total_items = 0 => percent = NaN

\* C9 (amended): percent_of_grand_total is 100 * total / grand_total for a
\* non-zero grand total; for a zero grand total no error is raised and the value
\* is nan when total is also zero and inf when total is positive.
C9_PercentOfGrandTotal ==
    PercentDone =>
        /\ error = "none"
        /\ total_items # 0 => Finite(percent) /\ percent.num * total_items = 100 * Total * percent.den
        /\ total_items = 0 => percent = (IF Total = 0 THEN NaN ELSE Inf)

\* A positive total over a zero grand total.
C9_Witness ==
    /\ PercentDone
    /\ total_items = 0
    /\ Total > 0
    /\ percent = Inf

====
